---- MODULE Spec2Model ----
(***************************************************************************)
(* Enrollment / waitlist core of smart_course_registration.                *)
(*                                                                         *)
(* Request handlers (EnrollStudentView.post, drop_course, leave_waitlist)  *)
(* and the Celery task process_waitlist run in parallel processes against  *)
(* one PostgreSQL database at READ COMMITTED.  A handler is a sequence of   *)
(* steps, one per database statement, except that statements which read    *)
(* only rows that the locks already held keep stable are one step with     *)
(* the statement before them.  A transaction's writes are the last         *)
(* statements before its commit, and uncommitted rows are invisible to     *)
(* other transactions, so each "write ... commit" tail is one step.        *)
(* Row locks (SELECT ... FOR UPDATE) are held until that commit.           *)
(***************************************************************************)
EXTENDS Integers, Sequences, FiniteSets, TLC

\* ---- bounds of the model ------------------------------------------------
NProcs == 2          \* request/worker processes running in parallel
MaxCap == 2          \* largest Section.capacity drawn in Init
MaxWaitlistId == 2   \* Waitlist rows ever created (auto-increment id)
MaxJobs == 2         \* process_waitlist messages pending in the broker
MaxSlots == 2        \* longest parsed schedule given to check_conflict
MaxMinute == 2       \* latest start/end minute of a slot given to it

Procs == 1..NProcs
SectionIds == {1, 2}   \* section ids a request may name
None == "none"

VARIABLES
    students,     \* users_user rows with role STUDENT (usernames)
    sections,     \* courses_section: id -> [capacity, semester, schedule]
    enrollments,  \* enrollment_enrollment, committed rows <<student, section>>
    waitlist,     \* enrollment_waitlist, committed rows
    nextId,       \* next auto-increment id of enrollment_waitlist
    jobs,         \* section -> process_waitlist messages not yet consumed
    locks,        \* process -> row locks its open transaction holds
    pc,           \* process -> statement it is about to execute
    req,          \* process -> the request / task it is executing
    entry,        \* process -> waitlist_entry local of process_waitlist
    trail,        \* history: the last invocations and what they started from
    call          \* a call of check_conflict on its own: arguments and result

vars == <<students, sections, enrollments, waitlist, nextId, jobs,
          locks, pc, req, entry, trail, call>>

Sections == DOMAIN sections   \* ids that have a row in courses_section

\* ---- schedule model (views.py) -----------------------------------------
\* A schedule string is kept split at its separators: "Mon/Wed 10:00-11:30"
\* is << <<"Mon","Wed">>, << <<10,0>>, <<11,30>> >> >> (split(' '), then
\* split('/'), split('-'), split(':') with int()).
Sched(days, sh, sm, eh, em) == << days, << <<sh, sm>>, <<eh, em>> >> >>
MonWed1000 == Sched(<<"Mon", "Wed">>, 10, 0, 11, 30)
MonWed1030 == Sched(<<"Mon", "Wed">>, 10, 30, 12, 0)
TueThu1000 == Sched(<<"Tue", "Thu">>, 10, 0, 11, 30)
Unparsable == << <<"TBA">> >>

time_to_minutes(t_str) == t_str[1] * 60 + t_str[2]

parse_schedule(schedule_str) ==
    IF Len(schedule_str) < 2 THEN <<>>                  \* parts[1]: IndexError
    ELSE LET days == schedule_str[1]
             time_part == schedule_str[2]
         IN  IF Len(time_part) # 2 THEN <<>>            \* unpacking: ValueError
             ELSE IF Len(time_part[1]) # 2 \/ Len(time_part[2]) # 2 THEN <<>>
             ELSE [i \in 1..Len(days) |->
                     [day |-> days[i],
                      start |-> time_to_minutes(time_part[1]),
                      end |-> time_to_minutes(time_part[2])]]

\* check_conflict with closed intervals (<= and >=)
check_conflict_Closed(schedule1, schedule2) ==
    \E i \in 1..Len(schedule1) : \E j \in 1..Len(schedule2) :
        /\ schedule1[i].day = schedule2[j].day
        /\ schedule1[i].start <= schedule2[j].end
        /\ schedule1[i].end >= schedule2[j].start

check_conflict(schedule1, schedule2) ==
    \E i \in 1..Len(schedule1) : \E j \in 1..Len(schedule2) :
        /\ schedule1[i].day = schedule2[j].day
        /\ schedule1[i].start < schedule2[j].end
        /\ schedule1[i].end > schedule2[j].start

\* ---- queries -----------------------------------------------------------
SectionRows(s) == {e \in enrollments : e[2] = s}
current_enrollment(s) == Cardinality(SectionRows(s))
Enrolled(st, s) == <<st, s>> \in enrollments
SectionWaitlist(s) == {w \in waitlist : w.section = s}
Waitlisted(st, s) == \E w \in waitlist : w.student = st /\ w.section = s

\* Waitlist.get_position: rows of the section with joined_at < own, plus 1
get_position(w) ==
    Cardinality({x \in waitlist :
                   x.section = w.section /\ x.joined_at < w.joined_at}) + 1

\* Waitlist.Meta.ordering = ['joined_at'] and .first(): ORDER BY joined_at
\* LIMIT 1.  Rows with equal joined_at come in no specified order, so any of
\* the rows with the least joined_at can be the one returned.
FirstRows(s) ==
    {w \in SectionWaitlist(s) :
        \A x \in SectionWaitlist(s) : w.joined_at <= x.joined_at}

\* existing_conflict that takes only an identical schedule for a conflict
existing_conflict_SameSlot(st, s) ==
    \E e \in enrollments :
        /\ e[1] = st
        /\ sections[e[2]].semester = sections[s].semester
        /\ sections[e[2]].schedule = sections[s].schedule

\* existing_conflict in which a schedule that does not parse is a conflict
existing_conflict_Strict(st, s) ==
    \E e \in enrollments :
        /\ e[1] = st
        /\ sections[e[2]].semester = sections[s].semester
        /\ \/ parse_schedule(sections[s].schedule) = <<>>
           \/ parse_schedule(sections[e[2]].schedule) = <<>>
           \/ check_conflict(parse_schedule(sections[s].schedule),
                             parse_schedule(sections[e[2]].schedule))

\* The conflict loop of EnrollStudentView.post
existing_conflict(st, s) ==
    LET new_schedule == parse_schedule(sections[s].schedule)
    IN  /\ new_schedule # <<>>
        /\ \E e \in enrollments :
              /\ e[1] = st
              /\ sections[e[2]].semester = sections[s].semester
              /\ check_conflict(new_schedule,
                                parse_schedule(sections[e[2]].schedule))

\* The conflict loop of process_waitlist
waitlist_conflict(st, s) ==
    LET new_schedule == parse_schedule(sections[s].schedule)
    IN  /\ new_schedule # <<>>
        /\ \E e \in enrollments :
              /\ e[1] = st
              /\ sections[e[2]].semester = sections[s].semester
              /\ check_conflict(new_schedule,
                                parse_schedule(sections[e[2]].schedule))

\* timezone.now() for auto_now_add: time does not run backwards, and two
\* calls close together read the same value.  Only the order of the values
\* stored matters, so a new value is the latest one stored or the next.
Latest == IF waitlist = {} THEN 0
          ELSE CHOOSE t \in {w.joined_at : w \in waitlist} :
                   \A w \in waitlist : w.joined_at <= t
now == IF waitlist = {} THEN {1} ELSE {Latest, Latest + 1}

\* ---- locks and control -------------------------------------------------
SectionLock(s) == <<"section", s>>
EnrollmentLock(st, s) == <<"enrollment", st, s>>
WaitlistLock(id) == <<"waitlist", id>>
\* row locks that exclude nobody
LockedByOther_Never(p, l) == FALSE
LockedByOther(p, l) == \E q \in Procs \ {p} : l \in locks[q]

NoReq == [op |-> None, student |-> None, section |-> 0, wid |-> 0]
Request(op, st, s, wid) ==
    [op |-> op, student |-> st, section |-> s, wid |-> wid]

\* no call of check_conflict on its own
NoCall == [schedule1 |-> <<>>, schedule2 |-> <<>>,
           returned |-> FALSE, result |-> FALSE]

Running(op) == {q \in Procs : req[q].op = op}
Active == {q \in Procs : pc[q] # "idle"}
PendingJobs == jobs[1] + jobs[2]

\* Worker processes are interchangeable: a new request is taken by the
\* lowest-numbered idle process.
Free(p) == pc[p] = "idle" /\ \A q \in Procs : q < p => pc[q] # "idle"

\* ---- history of invocations ---------------------------------------------
\* trail holds at most the last two invocations, oldest first, when they are
\* all that ran since the first of them began: either one after the other
\* (solo), or overlapping each other and nothing else.  Each is recorded
\* with the committed tables it started from and its outcome.  An
\* invocation that changed nothing is not kept as a predecessor.
Tables == [enrollments |-> enrollments, waitlist |-> waitlist, jobs |-> jobs]
Invocation(p, r, solo) ==
    [proc |-> p, op |-> r.op, student |-> r.student, section |-> r.section,
     wid |-> r.wid, status |-> "running", position |-> 0, mail |-> None,
     solo |-> solo, pre |-> Tables]
LastOf(t) == t[Len(t)]
TrailBegin(p, r) ==
    IF Active = {}
    THEN (IF /\ trail # <<>>
             /\ LastOf(trail).solo
             /\ LastOf(trail).pre # Tables
          THEN <<LastOf(trail)>>
          ELSE <<>>) \o <<Invocation(p, r, TRUE)>>
    ELSE IF /\ trail # <<>>
            /\ LastOf(trail).solo
            /\ LastOf(trail).status = "running"
            /\ Active = {LastOf(trail).proc}
         THEN <<[LastOf(trail) EXCEPT !.solo = FALSE], Invocation(p, r, FALSE)>>
         ELSE <<>>
\* the trail with the invocation of p in it
TrailNow(p, r) == IF pc[p] = "idle" THEN TrailBegin(p, r) ELSE trail
TrailEnd(t, p, status, position) ==
    [i \in 1..Len(t) |->
        IF t[i].proc = p /\ t[i].status = "running"
        THEN [t[i] EXCEPT !.status = status, !.position = position]
        ELSE t[i]]

\* the outcome of the notification the invocation of p sent
TrailMail(t, p, m) ==
    [i \in 1..Len(t) |->
        IF t[i].proc = p /\ t[i].status = "running"
        THEN [t[i] EXCEPT !.mail = m]
        ELSE t[i]]

\* ---- steps of a handler -------------------------------------------------
\* the statement waits for a row lock another transaction holds
Wait(p, r, label) ==
    /\ pc[p] = "idle"
    /\ pc' = [pc EXCEPT ![p] = label]
    /\ req' = [req EXCEPT ![p] = r]
    /\ trail' = TrailNow(p, r)
    /\ UNCHANGED <<locks, entry>>

\* the row lock l is granted and the handler goes on to `label`
Lock(p, r, l, label) ==
    /\ ~LockedByOther(p, l)
    /\ locks' = [locks EXCEPT ![p] = @ \cup {l}]
    /\ req' = [req EXCEPT ![p] = r]
    /\ pc' = [pc EXCEPT ![p] = label]
    /\ trail' = TrailNow(p, r)
    /\ UNCHANGED entry

\* go on to the next statement of the handler
Step(p, label) ==
    /\ pc' = [pc EXCEPT ![p] = label]
    /\ UNCHANGED <<locks, req, entry, trail>>

\* leave the atomic block (commit or rollback releases every row lock) and
\* return the response
Finish(p, r, status, position) ==
    /\ pc' = [pc EXCEPT ![p] = "idle"]
    /\ req' = [req EXCEPT ![p] = NoReq]
    /\ locks' = [locks EXCEPT ![p] = {}]
    /\ entry' = [entry EXCEPT ![p] = None]
    /\ trail' = TrailEnd(TrailNow(p, r), p, status, position)

\* Finish of an invocation that called send_mail, with what became of the
\* message
FinishMail(p, r, status, m) ==
    /\ pc' = [pc EXCEPT ![p] = "idle"]
    /\ req' = [req EXCEPT ![p] = NoReq]
    /\ locks' = [locks EXCEPT ![p] = {}]
    /\ entry' = [entry EXCEPT ![p] = None]
    /\ trail' = TrailEnd(TrailMail(TrailNow(p, r), p, m), p, status, 0)

NoWrite == UNCHANGED <<enrollments, waitlist, nextId, jobs>>
Fixed == UNCHANGED <<students, sections, call>>

\* ---- EnrollStudentView.post ---------------------------------------------
\* EnrollLocked without the waitlist exists() check
EnrollLocked_NoWaitlistCheck(p, r) ==
    IF Enrolled(r.student, r.section)
    THEN Finish(p, r, "already_enrolled", 0)
    ELSE IF current_enrollment(r.section) >= sections[r.section].capacity
    THEN Lock(p, r, SectionLock(r.section), "e_waitlist")
    ELSE Lock(p, r, SectionLock(r.section), "e_conflict")

\* EnrollLocked with the capacity test off by one (count > capacity)
EnrollLocked_OffByOne(p, r) ==
    IF Enrolled(r.student, r.section)
    THEN Finish(p, r, "already_enrolled", 0)
    ELSE IF Waitlisted(r.student, r.section)
    THEN Finish(p, r, "already_waitlisted", 0)
    ELSE IF current_enrollment(r.section) > sections[r.section].capacity
    THEN Lock(p, r, SectionLock(r.section), "e_waitlist")
    ELSE Lock(p, r, SectionLock(r.section), "e_conflict")

\* With the section lock granted: the two exists() checks and the count().
\* Rows of this student and section are inserted only by a holder of the
\* section lock, so an exists() that was false is still false when count()
\* runs: the statements read one instant.
EnrollLocked(p, r) ==
    IF Enrolled(r.student, r.section)
    THEN Finish(p, r, "already_enrolled", 0)
    ELSE IF Waitlisted(r.student, r.section)
    THEN Finish(p, r, "already_waitlisted", 0)
    ELSE IF current_enrollment(r.section) >= sections[r.section].capacity
    THEN Lock(p, r, SectionLock(r.section), "e_waitlist")
    ELSE Lock(p, r, SectionLock(r.section), "e_conflict")

\* EnrollSelect that reads without taking the section lock
EnrollSelect_NoLock(p, r) ==
    IF r.section \notin Sections
    THEN Finish(p, r, "section_not_found", 0)
    ELSE IF Enrolled(r.student, r.section)
    THEN Finish(p, r, "already_enrolled", 0)
    ELSE IF Waitlisted(r.student, r.section)
    THEN Finish(p, r, "already_waitlisted", 0)
    ELSE IF current_enrollment(r.section) >= sections[r.section].capacity
    THEN Wait(p, r, "e_waitlist")
    ELSE Wait(p, r, "e_conflict")

\* section = Section.objects.select_for_update().get(id=section_id)
EnrollSelect(p, r) ==
    IF r.section \notin Sections
    THEN Finish(p, r, "section_not_found", 0)      \* Section.DoesNotExist
    ELSE IF LockedByOther(p, SectionLock(r.section))
    THEN Wait(p, r, "e_lock")
    ELSE EnrollLocked(p, r)

EnrollBegin(p, st, s) ==
    /\ Free(p)
    /\ nextId + Cardinality(Running("enroll")) <= MaxWaitlistId
    /\ EnrollSelect(p, Request("enroll", st, s, 0))
    /\ NoWrite /\ Fixed

\* EnrollLock that decides on a count read before the wait for the lock
\* (a seat was free then)
EnrollLock_StaleCount(p) ==
    /\ pc[p] = "e_lock"
    /\ Lock(p, req[p], SectionLock(req[p].section), "e_conflict")
    /\ NoWrite /\ Fixed

EnrollLock(p) ==
    /\ pc[p] = "e_lock"
    /\ ~LockedByOther(p, SectionLock(req[p].section))
    /\ EnrollLocked(p, req[p])
    /\ NoWrite /\ Fixed

\* EnrollJoinWaitlist that reports the position by timestamp alone
EnrollJoinWaitlist_ByTimestamp(p) ==
    /\ pc[p] = "e_waitlist"
    /\ LET st == req[p].student
           s == req[p].section
       IN  IF Waitlisted(st, s)
           THEN /\ Finish(p, req[p], "error", 0)
                /\ UNCHANGED <<waitlist, nextId>>
           ELSE \E t \in now :
                /\ waitlist' = waitlist \cup
                       {[id |-> nextId, student |-> st, section |-> s,
                         joined_at |-> t]}
                /\ nextId' = nextId + 1
                /\ Finish(p, req[p], "waitlisted",
                          Cardinality({x \in SectionWaitlist(s) :
                                         x.joined_at < t}) + 1)
    /\ UNCHANGED <<enrollments, jobs>> /\ Fixed

\* Waitlist.objects.create(...); waitlist_position = ...count(); return
EnrollJoinWaitlist(p) ==
    /\ pc[p] = "e_waitlist"
    /\ LET st == req[p].student
           s == req[p].section
       IN  IF Waitlisted(st, s)
           THEN \* unique_together: IntegrityError, caught by except Exception
                /\ Finish(p, req[p], "error", 0)
                /\ UNCHANGED <<waitlist, nextId>>
           ELSE \E t \in now :
                /\ waitlist' = waitlist \cup
                       {[id |-> nextId, student |-> st, section |-> s,
                         joined_at |-> t]}
                /\ nextId' = nextId + 1
                /\ Finish(p, req[p], "waitlisted",
                          Cardinality(SectionWaitlist(s)) + 1)
    /\ UNCHANGED <<enrollments, jobs>> /\ Fixed

\* EnrollCheckConflict with the test of the conflict inverted
EnrollCheckConflict_Inverted(p) ==
    /\ pc[p] = "e_conflict"
    /\ IF ~existing_conflict(req[p].student, req[p].section)
       THEN Finish(p, req[p], "schedule_conflict", 0)
       ELSE Step(p, "e_create")
    /\ NoWrite /\ Fixed

\* new_schedule = parse_schedule(...); the loop over existing_enrollments
EnrollCheckConflict(p) ==
    /\ pc[p] = "e_conflict"
    /\ IF existing_conflict(req[p].student, req[p].section)
       THEN Finish(p, req[p], "schedule_conflict", 0)
       ELSE Step(p, "e_create")
    /\ NoWrite /\ Fixed

\* Enrollment.objects.create(student, section); return 'enrolled'
EnrollCreate(p) ==
    /\ pc[p] = "e_create"
    /\ LET row == <<req[p].student, req[p].section>>
       IN  IF row \in enrollments
           THEN \* unique_together: IntegrityError, caught by except Exception
                Finish(p, req[p], "error", 0) /\ UNCHANGED enrollments
           ELSE enrollments' = enrollments \cup {row}
                /\ Finish(p, req[p], "enrolled", 0)
    /\ UNCHANGED <<waitlist, nextId, jobs>> /\ Fixed

\* ---- drop_course --------------------------------------------------------
\* DropSelect that reads the row without locking it
DropSelect_NoLock(p, r) ==
    IF ~Enrolled(r.student, r.section)
    THEN Finish(p, r, "not_found", 0)
    ELSE Wait(p, r, "d_delete")

\* get_object_or_404(Enrollment.objects.select_for_update(), student, section_id)
DropSelect(p, r) ==
    IF ~Enrolled(r.student, r.section)
    THEN Finish(p, r, "not_found", 0)      \* Http404, caught by except Exception
    ELSE IF LockedByOther(p, EnrollmentLock(r.student, r.section))
    THEN Wait(p, r, "d_lock")
    ELSE Lock(p, r, EnrollmentLock(r.student, r.section), "d_delete")

DropBegin(p, st, s) ==
    /\ Free(p)
    /\ PendingJobs + Cardinality(Running("drop")) < MaxJobs
    /\ DropSelect(p, Request("drop", st, s, 0))
    /\ NoWrite /\ Fixed

DropLock(p) ==
    /\ pc[p] = "d_lock"
    /\ ~LockedByOther(p, EnrollmentLock(req[p].student, req[p].section))
    /\ DropSelect(p, req[p])
    /\ NoWrite /\ Fixed

\* DropDelete that sends the promotion job from inside the atomic block
DropDelete_ScheduleInside(p) ==
    /\ pc[p] = "d_delete"
    /\ enrollments' = enrollments \ {<<req[p].student, req[p].section>>}
    /\ jobs' = [jobs EXCEPT ![req[p].section] = @ + 1]
    /\ Finish(p, req[p], "dropped", 0)
    /\ UNCHANGED <<waitlist, nextId>> /\ Fixed

\* enrollment.delete(); the atomic block ends: commit
DropDelete(p) ==
    /\ pc[p] = "d_delete"
    /\ enrollments' = enrollments \ {<<req[p].student, req[p].section>>}
    /\ locks' = [locks EXCEPT ![p] = {}]
    /\ pc' = [pc EXCEPT ![p] = "d_schedule"]
    /\ UNCHANGED <<waitlist, nextId, jobs, req, entry, trail>> /\ Fixed

\* process_waitlist.delay(section_id); return success
DropSchedule(p) ==
    /\ pc[p] = "d_schedule"
    /\ jobs' = [jobs EXCEPT ![req[p].section] = @ + 1]
    /\ Finish(p, req[p], "dropped", 0)
    /\ UNCHANGED <<enrollments, waitlist, nextId>> /\ Fixed

\* ---- leave_waitlist -----------------------------------------------------
\* LeaveSelect that looks the entry up by id alone
LeaveSelect_AnyOwner(p, r) ==
    IF ~\E w \in waitlist : w.id = r.wid
    THEN Finish(p, r, "not_found", 0)
    ELSE IF LockedByOther(p, WaitlistLock(r.wid))
    THEN Wait(p, r, "l_lock")
    ELSE Lock(p, r, WaitlistLock(r.wid), "l_delete")

\* LeaveSelect that also locks the section of the entry, after the entry
LeaveSelect_RowThenSection(p, r) ==
    IF ~\E w \in waitlist : w.id = r.wid /\ w.student = r.student
    THEN Finish(p, r, "not_found", 0)
    ELSE IF LockedByOther(p, WaitlistLock(r.wid))
    THEN Wait(p, r, "l_lock")
    ELSE IF \E w \in waitlist :
               w.id = r.wid /\ LockedByOther(p, SectionLock(w.section))
    THEN /\ locks' = [locks EXCEPT ![p] = @ \cup {WaitlistLock(r.wid)}]
         /\ pc' = [pc EXCEPT ![p] = "l_lock"]
         /\ req' = [req EXCEPT ![p] = r]
         /\ trail' = TrailNow(p, r)
         /\ UNCHANGED entry
    ELSE Lock(p, r, WaitlistLock(r.wid), "l_delete")

\* get_object_or_404(Waitlist.objects.select_for_update(), id, student)
LeaveSelect(p, r) ==
    IF ~\E w \in waitlist : w.id = r.wid /\ w.student = r.student
    THEN Finish(p, r, "not_found", 0)      \* Http404, caught by except Exception
    ELSE IF LockedByOther(p, WaitlistLock(r.wid))
    THEN Wait(p, r, "l_lock")
    ELSE Lock(p, r, WaitlistLock(r.wid), "l_delete")

LeaveBegin(p, st, wid) ==
    /\ Free(p)
    /\ LeaveSelect(p, Request("leave", st, 0, wid))
    /\ NoWrite /\ Fixed

LeaveLock(p) ==
    /\ pc[p] = "l_lock"
    /\ ~LockedByOther(p, WaitlistLock(req[p].wid))
    /\ LeaveSelect(p, req[p])
    /\ NoWrite /\ Fixed

\* waitlist.delete(); commit; return success
LeaveDelete(p) ==
    /\ pc[p] = "l_delete"
    /\ waitlist' = {w \in waitlist : w.id # req[p].wid}
    /\ Finish(p, req[p], "left", 0)
    /\ UNCHANGED <<enrollments, nextId, jobs>> /\ Fixed

\* ---- process_waitlist (tasks.py) ----------------------------------------
\* send_mail that raises whenever the message cannot be delivered
send_mail_Raises(delivered, fail_silently) ==
    IF delivered THEN "sent" ELSE "raise"

\* django.core.mail.send_mail: the message goes out, or the mail backend
\* fails (SMTPException, OSError) and the error is swallowed when
\* fail_silently is set and raised otherwise
send_mail(delivered, fail_silently) ==
    IF delivered THEN "sent"
    ELSE IF fail_silently THEN "failed"
    ELSE "raise"

\* PromoteLocked without the capacity test
PromoteLocked_NoCount(p, r) == Lock(p, r, SectionLock(r.section), "p_first")

\* With the section lock granted: count() and the capacity test
PromoteLocked(p, r) ==
    IF current_enrollment(r.section) >= sections[r.section].capacity
    THEN Finish(p, r, "still_full", 0)
    ELSE Lock(p, r, SectionLock(r.section), "p_first")

\* section = Section.objects.select_for_update().get(id=section_id)
PromoteSelect(p, r) ==
    IF r.section \notin Sections
    THEN Finish(p, r, "section_not_found", 0)      \* Section.DoesNotExist
    ELSE IF LockedByOther(p, SectionLock(r.section))
    THEN Wait(p, r, "p_lock")
    ELSE PromoteLocked(p, r)

\* a Celery worker takes a message that drop_course sent
PromoteJob(p, s) ==
    /\ Free(p)
    /\ jobs[s] > 0
    /\ jobs' = [jobs EXCEPT ![s] = @ - 1]
    /\ PromoteSelect(p, Request("promote", None, s, 0))
    /\ UNCHANGED <<enrollments, waitlist, nextId>> /\ Fixed

\* the task function is called directly (as enrollment/tests.py does)
PromoteCall(p, s) ==
    /\ Free(p)
    /\ PromoteSelect(p, Request("promote", None, s, 0))
    /\ NoWrite /\ Fixed

PromoteLock(p) ==
    /\ pc[p] = "p_lock"
    /\ ~LockedByOther(p, SectionLock(req[p].section))
    /\ PromoteLocked(p, req[p])
    /\ NoWrite /\ Fixed

\* waitlist_entry = Waitlist.objects.filter(section).select_for_update().first()
\* A row that another transaction has locked makes the statement wait; that
\* row is then gone and the next one is taken.
PromoteFirst(p) ==
    /\ pc[p] = "p_first"
    /\ IF SectionWaitlist(req[p].section) = {}
       THEN Finish(p, req[p], "no_waitlist", 0) /\ UNCHANGED waitlist
       ELSE \E w \in FirstRows(req[p].section) :
               /\ ~LockedByOther(p, WaitlistLock(w.id))
               /\ IF Enrolled(w.student, req[p].section)
                  THEN /\ waitlist' = waitlist \ {w}
                       /\ Finish(p, req[p], "already_enrolled", 0)
                  ELSE /\ locks' = [locks EXCEPT ![p] = @ \cup {WaitlistLock(w.id)}]
                       /\ entry' = [entry EXCEPT ![p] = w]
                       /\ pc' = [pc EXCEPT ![p] = "p_conflict"]
                       /\ UNCHANGED <<waitlist, req, trail>>
    /\ UNCHANGED <<enrollments, nextId, jobs>> /\ Fixed

\* PromoteCheckConflict without the conflict loop
PromoteCheckConflict_Skip(p) ==
    /\ pc[p] = "p_conflict"
    /\ Step(p, "p_enroll")
    /\ NoWrite /\ Fixed

\* the conflict loop; on a conflict: waitlist_entry.delete(); send_mail; return
\* An exception out of send_mail would leave the atomic block and roll the
\* DELETE back.
PromoteCheckConflict(p) ==
    /\ pc[p] = "p_conflict"
    /\ IF waitlist_conflict(entry[p].student, req[p].section)
       THEN \E delivered \in BOOLEAN :
               LET m == send_mail(delivered, TRUE)
               IN  IF m = "raise"
                   THEN /\ FinishMail(p, req[p], "error", "failed")
                        /\ UNCHANGED waitlist
                   ELSE /\ waitlist' = {w \in waitlist : w.id # entry[p].id}
                        /\ FinishMail(p, req[p], "conflict", m)
       ELSE /\ Step(p, "p_enroll")
            /\ UNCHANGED waitlist
    /\ UNCHANGED <<enrollments, nextId, jobs>> /\ Fixed

\* PromoteEnroll that leaves the waitlist entry in place
PromoteEnroll_KeepEntry(p) ==
    /\ pc[p] = "p_enroll"
    /\ LET row == <<entry[p].student, req[p].section>>
       IN  IF row \in enrollments
           THEN /\ Finish(p, req[p], "error", 0)
                /\ UNCHANGED <<enrollments, waitlist>>
           ELSE /\ enrollments' = enrollments \cup {row}
                /\ Finish(p, req[p], "promoted", 0)
                /\ UNCHANGED waitlist
    /\ UNCHANGED <<nextId, jobs>> /\ Fixed

\* Enrollment.objects.create(...); waitlist_entry.delete(); send_mail; return
PromoteEnroll(p) ==
    /\ pc[p] = "p_enroll"
    /\ LET row == <<entry[p].student, req[p].section>>
       IN  IF row \in enrollments
           THEN \* unique_together: IntegrityError rolls the block back
                /\ Finish(p, req[p], "error", 0)
                /\ UNCHANGED <<enrollments, waitlist>>
           ELSE \E delivered \in BOOLEAN :
                   LET m == send_mail(delivered, TRUE)
                   IN  IF m = "raise"
                       THEN \* the exception rolls the block back
                            /\ FinishMail(p, req[p], "error", "failed")
                            /\ UNCHANGED <<enrollments, waitlist>>
                       ELSE /\ enrollments' = enrollments \cup {row}
                            /\ waitlist' =
                                   {w \in waitlist : w.id # entry[p].id}
                            /\ FinishMail(p, req[p], "promoted", m)
    /\ UNCHANGED <<nextId, jobs>> /\ Fixed

\* ---- specification -----------------------------------------------------
\* The rows of users_user and courses_section are fixed while the core runs.
\* Three small databases: two sections of one semester whose schedules
\* overlap (the schedules of enrollment/tests.py), the same two sections in
\* different semesters, and one larger section with more students.
Sec(c, sem, sch) == [capacity |-> c, semester |-> sem, schedule |-> sch]
Worlds ==
    {[students |-> {"A", "B", "C"},
      sections |-> (1 :> Sec(1, "Fall 2024", MonWed1000))
                   @@ (2 :> Sec(1, "Fall 2024", MonWed1030))],
     [students |-> {"A", "B"},
      sections |-> (1 :> Sec(1, "Fall 2024", MonWed1000))
                   @@ (2 :> Sec(1, "Spring 2025", MonWed1030))],
     [students |-> {"A", "B", "C", "D"},
      sections |-> (1 :> Sec(MaxCap, "Fall 2024", MonWed1000))]}

Init ==
    /\ \E w \in Worlds : students = w.students /\ sections = w.sections
    /\ enrollments = {}
    /\ waitlist = {}
    /\ nextId = 1
    /\ jobs = [s \in SectionIds |-> 0]
    /\ locks = [p \in Procs |-> {}]
    /\ pc = [p \in Procs |-> "idle"]
    /\ req = [p \in Procs |-> NoReq]
    /\ entry = [p \in Procs |-> None]
    /\ trail = <<>>
    /\ call = NoCall

\* The requests the model draws: enroll by every student for section 1 and
\* by student "A" also for section 2; drop and promotion for section 1.
Inputs == {r \in students \X SectionIds : r[2] = 1 \/ r[1] = "A"}

\* leave_waitlist is called by the owner of an entry, and by student "A" for
\* any id (another student's entry, or an id with no row)
LeaveInputs ==
    {<<w.student, w.id>> : w \in waitlist}
        \cup {r \in students \X (1..MaxWaitlistId) : r[1] = "A"}

Next ==
    \E p \in Procs :
        \/ \E r \in Inputs : EnrollBegin(p, r[1], r[2])
        \/ EnrollLock(p)
        \/ EnrollJoinWaitlist(p)
        \/ EnrollCheckConflict(p)
        \/ EnrollCreate(p)
        \/ \E st \in students : DropBegin(p, st, 1)
        \/ DropLock(p)
        \/ DropDelete(p)
        \/ DropSchedule(p)
        \/ \E r \in LeaveInputs : LeaveBegin(p, r[1], r[2])
        \/ LeaveLock(p)
        \/ LeaveDelete(p)
        \/ PromoteJob(p, 1)
        \/ PromoteCall(p, 1)
        \/ PromoteLock(p)
        \/ PromoteFirst(p)
        \/ PromoteCheckConflict(p)
        \/ PromoteEnroll(p)

Spec == Init /\ [][Next]_vars
\* ---- Django admin (enrollment/admin.py) ----------------------------------
\* EnrollmentAdmin's add view: an administrator saves an Enrollment row.  The
\* form validates unique_together and nothing else: neither the capacity of
\* the section nor the waitlist.  It is a transaction of its own and can
\* commit between any two steps of the handlers; the recorded invocations
\* no longer account for the tables, so the trail is dropped.  The model
\* draws the rows for students who are waiting for the section.
AdminAddEnrollment(st, s) ==
    /\ s \in Sections
    /\ Waitlisted(st, s)
    /\ ~Enrolled(st, s)
    /\ enrollments' = enrollments \cup {<<st, s>>}
    /\ trail' = <<>>
    /\ UNCHANGED <<waitlist, nextId, jobs, locks, pc, req, entry>> /\ Fixed

NextAdmin ==
    \/ Next
    \/ \E st \in students : AdminAddEnrollment(st, 1)

\* the core with an administrator at work
SpecAdmin == Init /\ [][NextAdmin]_vars

\* ---- failures of the collaborators ---------------------------------------
\* the labels at which a handler is inside its atomic block
InTransaction ==
    {"e_lock", "e_waitlist", "e_conflict", "e_create", "d_lock", "d_delete",
     "l_lock", "l_delete", "p_lock", "p_first", "p_conflict", "p_enroll"}
\* the labels at which a handler waits for a row lock
LockWaits == {"e_lock", "d_lock", "l_lock", "p_lock"}

\* how often a call runs the body of its handler: once.  Neither the views
\* nor the task hold a loop or a retry around the atomic block, and every
\* exception ends in an except clause that returns.
attempts == 1

\* A statement inside the atomic block fails with a database error (the
\* connection is lost, the server shuts down): the exception leaves the
\* block, which rolls back, and except Exception returns the error.
StorageFails(p) ==
    /\ pc[p] \in InTransaction
    /\ Finish(p, req[p], "db_error", 0)
    /\ NoWrite /\ Fixed

\* process_waitlist.delay raises because the broker cannot be reached.  The
\* call stands after the atomic block, whose DELETE is committed, and inside
\* the try: except Exception answers status 400.
DropScheduleFails(p) ==
    /\ pc[p] = "d_schedule"
    /\ Finish(p, req[p], "broker_error", 0)
    /\ NoWrite /\ Fixed

\* The wait for a row lock ends with the storage layer's lock timeout.  The
\* exception leaves the atomic block and except Exception returns the error.
LockTimeout(p) ==
    /\ pc[p] \in LockWaits
    /\ Finish(p, req[p], "lock_timeout", 0)
    /\ NoWrite /\ Fixed

NextFaults ==
    \/ Next
    \/ \E p \in Procs :
          \/ StorageFails(p)
          \/ DropScheduleFails(p)
          \/ LockTimeout(p)

\* the core with a storage layer and a broker that can fail
SpecFaults == Init /\ [][NextFaults]_vars

\* ---- check_conflict on its own -------------------------------------------
\* The parsed schedules the model gives to check_conflict: lists of at most
\* MaxSlots slots {'day', 'start', 'end'}, any start and end (a descriptor
\* such as "Mon 11:30-10:00" parses to a slot that ends before it starts).
Days == {"Mon", "Tue"}
Slots == [day : Days, start : 0..MaxMinute, end : 0..MaxMinute]
ParsedSchedules == UNION {[1..n -> Slots] : n \in 0..MaxSlots}

InitConflict ==
    /\ \E schedule1 \in ParsedSchedules : \E schedule2 \in ParsedSchedules :
          call = [schedule1 |-> schedule1, schedule2 |-> schedule2,
                  returned |-> FALSE, result |-> FALSE]
    /\ students = {}
    /\ sections = <<>>
    /\ enrollments = {}
    /\ waitlist = {}
    /\ nextId = 1
    /\ jobs = [s \in SectionIds |-> 0]
    /\ locks = [p \in Procs |-> {}]
    /\ pc = [p \in Procs |-> "idle"]
    /\ req = [p \in Procs |-> NoReq]
    /\ entry = [p \in Procs |-> None]
    /\ trail = <<>>

\* self.check_conflict(new_schedule, existing_schedule) returns
CallCheckConflict ==
    /\ ~call.returned
    /\ call' = [call EXCEPT
                   !.returned = TRUE,
                   !.result = check_conflict(call.schedule1, call.schedule2)]
    /\ UNCHANGED <<students, sections, enrollments, waitlist, nextId, jobs,
                   locks, pc, req, entry, trail>>

SpecConflict == InitConflict /\ [][CallCheckConflict]_vars

\* ---- scheduling ----------------------------------------------------------
\* the steps that carry an invocation on once it has begun
Continue(p) ==
    \/ EnrollLock(p)
    \/ EnrollJoinWaitlist(p)
    \/ EnrollCheckConflict(p)
    \/ EnrollCreate(p)
    \/ DropLock(p)
    \/ DropDelete(p)
    \/ DropSchedule(p)
    \/ LeaveLock(p)
    \/ LeaveDelete(p)
    \/ PromoteLock(p)
    \/ PromoteFirst(p)
    \/ PromoteCheckConflict(p)
    \/ PromoteEnroll(p)

\* A process that can go on does go on (the web workers and the Celery
\* workers are scheduled by the operating system), and a transaction that
\* waits for a row lock is granted it when its turn in the lock's wait queue
\* comes, however often the lock is taken and released meanwhile.
Fairness ==
    \A p \in Procs :
        /\ WF_vars(Continue(p))
        /\ SF_vars(EnrollLock(p))
        /\ SF_vars(DropLock(p))
        /\ SF_vars(LeaveLock(p))
        /\ SF_vars(PromoteLock(p))
        /\ SF_vars(PromoteFirst(p))

\* one database of Worlds: two students and two sections, one seat each
InitFair ==
    /\ Init
    /\ students = {"A", "B"}

SpecFair == InitFair /\ [][Next]_vars /\ Fairness

\* ---- schedules that do not parse ---------------------------------------
\* Section.schedule is free text.  "TBA" has no time part, "Mon/Wed 10:00"
\* has no '-', "Mon/Wed 10-11" has no ':' : each raises inside the try block
\* of parse_schedule (IndexError, ValueError, ValueError).
NoDash == << <<"Mon", "Wed">>, << <<10, 0>> >> >>
NoColon == << <<"Mon", "Wed">>, << <<10>>, <<11>> >> >>
MalformedSchedules == {Unparsable, NoDash, NoColon}

\* Two students and two one-seat sections of one semester: the requested
\* section, the other section, or both carry a schedule that does not parse;
\* in the last database both schedules parse and overlap.
ScheduleWorlds ==
    {[students |-> {"A", "B"},
      sections |-> (1 :> Sec(1, "Fall 2024", sch[1]))
                   @@ (2 :> Sec(1, "Fall 2024", sch[2]))] :
        sch \in {<<Unparsable, MonWed1030>>, <<MonWed1000, NoDash>>,
                 <<NoColon, Unparsable>>, <<MonWed1000, MonWed1030>>}}

InitSchedules ==
    /\ \E w \in ScheduleWorlds :
          students = w.students /\ sections = w.sections
    /\ enrollments = {}
    /\ waitlist = {}
    /\ nextId = 1
    /\ jobs = [s \in SectionIds |-> 0]
    /\ locks = [p \in Procs |-> {}]
    /\ pc = [p \in Procs |-> "idle"]
    /\ req = [p \in Procs |-> NoReq]
    /\ entry = [p \in Procs |-> None]
    /\ trail = <<>>
    /\ call = NoCall

SpecSchedules == InitSchedules /\ [][Next]_vars

\* ---- executions in which the calls for one student do not overlap ------
\* The students an invocation in flight is about: the caller of enroll, and
\* the student of the entry process_waitlist has selected.
Concerns(p) ==
    IF req[p].op = "enroll" THEN {req[p].student}
    ELSE IF pc[p] \in {"p_conflict", "p_enroll"} THEN {entry[p].student}
    ELSE {}
NoOverlap ==
    \A p, q \in Procs : p # q => Concerns(p) \cap Concerns(q) = {}

\* The steps of Next that do not bring an enroll and a promotion, or two
\* enrolls, of one student in flight together.
NextSerial == Next /\ NoOverlap'

SpecSerial == Init /\ [][NextSerial]_vars

\* ---- properties --------------------------------------------------------
\* Vocabulary of the properties: the tables an invocation started from, and
\* the join order of waitlist entries (timestamp, then insertion order).
CountIn(T, s) == Cardinality({e \in T.enrollments : e[2] = s})
WaitlistIn(T, s) == {w \in T.waitlist : w.section = s}
JoinedBefore(a, b) ==
    \/ a.joined_at < b.joined_at
    \/ a.joined_at = b.joined_at /\ a.id < b.id
\* st holds an Enrollment of the semester of s whose schedule overlaps s
ConflictIn(T, st, s) ==
    \E e \in T.enrollments :
        /\ e[1] = st
        /\ sections[e[2]].semester = sections[s].semester
        /\ check_conflict(parse_schedule(sections[s].schedule),
                          parse_schedule(sections[e[2]].schedule))
\* the head of the waitlist of s: its first entry in join order
HeadOf(T, s) ==
    CHOOSE w \in WaitlistIn(T, s) :
        \A x \in WaitlistIn(T, s) : x = w \/ JoinedBefore(w, x)
\* the last invocation ran alone and has returned: the tables are as it
\* left them
Returned ==
    /\ trail # <<>>
    /\ Active = {}
    /\ LastOf(trail).solo
\* two invocations that overlapped each other and nothing else have returned
Concurrent(op) ==
    /\ Len(trail) = 2
    /\ Active = {}
    /\ \A i \in {1, 2} : ~trail[i].solo /\ trail[i].op = op
\* two invocations ran one after the other, alone, and have returned
Successive(op1, op2) ==
    /\ Len(trail) = 2
    /\ Active = {}
    /\ trail[1].solo /\ trail[2].solo
    /\ trail[1].op = op1 /\ trail[2].op = op2
    /\ trail[1].section = trail[2].section
    /\ trail[1].section \in Sections
FreeSeats(T, s) == sections[s].capacity - CountIn(T, s)

\* C1: in every reachable state every section has at most `capacity`
\* Enrollment rows.
C1_Capacity ==
    \A s \in Sections : current_enrollment(s) <= sections[s].capacity
\* a section of the largest capacity is full and has a student waiting
C1_Witness ==
    \E s \in Sections :
        /\ sections[s].capacity = MaxCap
        /\ current_enrollment(s) = MaxCap
        /\ SectionWaitlist(s) # {}

\* C2: in every reachable state no (student, section) pair has both an
\* Enrollment row and a Waitlist row; a promotion makes the one and removes
\* the other in a single commit.
C2_NotBoth ==
    \A st \in students : \A s \in Sections :
        ~(Enrolled(st, s) /\ Waitlisted(st, s))
\* a promotion has just committed: the student who was waiting is enrolled
C2_Witness ==
    /\ trail # <<>>
    /\ LastOf(trail).status = "promoted"
    /\ \E st \in students :
          /\ Enrolled(st, LastOf(trail).section)
          /\ \E w \in LastOf(trail).pre.waitlist :
                w.student = st /\ w.section = LastOf(trail).section

\* two enroll calls by different students, neither holding an Enrollment
\* that overlaps the section, overlapped each other on a section with one
\* free seat and nobody waiting
C3_Case ==
    /\ Concurrent("enroll")
    /\ trail[1].section = trail[2].section
    /\ trail[1].student # trail[2].student
    /\ trail[1].section \in Sections
    /\ FreeSeats(trail[1].pre, trail[1].section) = 1
    /\ WaitlistIn(trail[1].pre, trail[1].section) = {}
    /\ \A i \in {1, 2} :
          ~ConflictIn(trail[1].pre, trail[i].student, trail[i].section)
\* C3: two enroll calls by different students without a schedule conflict
\* that run concurrently against a section with exactly one free seat and an
\* empty waitlist end with one of them Enrolled and the other Waitlisted.
C3_OneSeat ==
    C3_Case =>
        \E i \in {1, 2} :
            LET s == trail[1].section
                won == trail[i].student
                lost == trail[3 - i].student
            IN  /\ trail[i].status = "enrolled"
                /\ trail[3 - i].status = "waitlisted"
                /\ Enrolled(won, s) /\ ~Waitlisted(won, s)
                /\ Waitlisted(lost, s) /\ ~Enrolled(lost, s)
                /\ current_enrollment(s) = sections[s].capacity
\* the case has happened in a section with more than one seat: the call
\* that had to wait for the section lock is the one on the waitlist
C3_Witness ==
    /\ C3_Case
    /\ sections[trail[1].section].capacity = MaxCap
    /\ trail[1].status = "enrolled"
    /\ trail[2].status = "waitlisted"

\* C4 as stated: two invocations of process_waitlist for one section in
\* immediate succession, nothing else running, create at most one
\* Enrollment between them.  (A first invocation that changes nothing leaves
\* the second in the same state, so only pairs whose first invocation
\* changed the tables are recorded.)
C4_AtMostOnce ==
    Successive("promote", "promote") =>
        Cardinality(enrollments \ trail[1].pre.enrollments) <= 1
\* C4, amended: two invocations of process_waitlist for one section in
\* immediate succession, nothing else running, that start from a section
\* with at most one free seat create at most one Enrollment between them.
C4_OneFreeSeat ==
    /\ Successive("promote", "promote")
    /\ FreeSeats(trail[1].pre, trail[1].section) <= 1
    => Cardinality(enrollments \ trail[1].pre.enrollments) <= 1
\* the first invocation promoted, the second found the section full and left
\* the next student waiting
C4_Witness ==
    /\ Successive("promote", "promote")
    /\ FreeSeats(trail[1].pre, trail[1].section) = 1
    /\ trail[1].status = "promoted"
    /\ trail[2].status = "still_full"
    /\ SectionWaitlist(trail[1].section) # {}

\* C5: with promotion jobs for one section running alongside each other and
\* alongside enroll calls, no Enrollment is ever created for a pair that has
\* one (unique_together is never put to the test), and no invocation ends in
\* the IntegrityError state.
C5_Unique ==
    /\ \A p \in Procs :
          /\ pc[p] = "e_create" => ~Enrolled(req[p].student, req[p].section)
          /\ pc[p] = "p_enroll" => ~Enrolled(entry[p].student, req[p].section)
    /\ \A i \in 1..Len(trail) : trail[i].status # "error"
\* a promotion job is about to enroll its candidate while a second job for
\* the same section waits for the section lock
C5_Witness ==
    \E p \in Procs : \E q \in Procs \ {p} :
        /\ pc[p] = "p_enroll"
        /\ pc[q] = "p_lock"
        /\ req[q].section = req[p].section

\* C6: a section is full and the head of its waitlist has no schedule
\* conflict; an enrolled student drops and then process_waitlist runs for
\* the section, nothing else running: the head student holds an Enrollment
\* in the section and no waitlist entry for it.
C6_HeadPromoted ==
    /\ Successive("drop", "promote")
    /\ trail[1].status = "dropped"
    /\ FreeSeats(trail[1].pre, trail[1].section) <= 0
    /\ WaitlistIn(trail[1].pre, trail[1].section) # {}
    /\ ~ConflictIn(trail[1].pre,
                   HeadOf(trail[1].pre, trail[1].section).student,
                   trail[1].section)
    => LET head == HeadOf(trail[1].pre, trail[1].section).student
       IN  /\ Enrolled(head, trail[1].section)
           /\ ~Waitlisted(head, trail[1].section)

\* C7: the candidate a promotion job selects is the entry of the section
\* that is first in join order, equal timestamps ordered by insertion.
C7_FIFO ==
    \A p \in Procs :
        pc[p] \in {"p_conflict", "p_enroll"} =>
            \A x \in SectionWaitlist(req[p].section) :
                x.id = entry[p].id \/ JoinedBefore(entry[p], x)

\* C8: no enroll call ends Enrolled in a section whose waitlist is not
\* empty (the caller, not being on the waitlist, is not its head).
C8_HeadFirst ==
    \A i \in 1..Len(trail) :
        /\ trail[i].solo
        /\ trail[i].op = "enroll"
        /\ trail[i].status = "enrolled"
        => WaitlistIn(trail[i].pre, trail[i].section) = {}

\* a student new to a full section has called enroll, alone
C9_Case ==
    /\ Returned
    /\ LastOf(trail).op = "enroll"
    /\ LastOf(trail).section \in Sections
    /\ FreeSeats(LastOf(trail).pre, LastOf(trail).section) <= 0
    /\ <<LastOf(trail).student, LastOf(trail).section>>
           \notin LastOf(trail).pre.enrollments
    /\ \A w \in WaitlistIn(LastOf(trail).pre, LastOf(trail).section) :
           w.student # LastOf(trail).student
\* C9: enroll by a student with no Enrollment and no waitlist entry for a
\* full section creates exactly one waitlist entry for the pair and no
\* Enrollment, and reports 1 + the number of entries of the section that are
\* earlier in join order; 1 when the waitlist was empty.
C9_Waitlisted ==
    C9_Case =>
        LET e == LastOf(trail)
        IN  /\ e.status = "waitlisted"
            /\ enrollments = e.pre.enrollments
            /\ \E w \in waitlist :
                  /\ w \notin e.pre.waitlist
                  /\ w.student = e.student /\ w.section = e.section
                  /\ waitlist = e.pre.waitlist \cup {w}
                  /\ e.position =
                        1 + Cardinality({x \in SectionWaitlist(e.section) :
                                           JoinedBefore(x, w)})
            /\ WaitlistIn(e.pre, e.section) = {} => e.position = 1
\* the student joined behind an entry that has the same timestamp
C9_Witness ==
    /\ C9_Case
    /\ LastOf(trail).position = 2
    /\ \E w \in waitlist : \E x \in waitlist :
          /\ w.student = LastOf(trail).student
          /\ x.id # w.id
          /\ x.section = w.section
          /\ x.joined_at = w.joined_at

\* C10: the positions of the n entries of a section's waitlist are pairwise
\* distinct and are exactly 1..n in join order, equal timestamps included.
C10_Positions ==
    \A s \in Sections :
        /\ {get_position(w) : w \in SectionWaitlist(s)}
               = 1..Cardinality(SectionWaitlist(s))
        /\ \A a \in SectionWaitlist(s) : \A b \in SectionWaitlist(s) :
              JoinedBefore(a, b) => get_position(a) < get_position(b)

\* a student has called enroll, alone, for a section that exists
C11_Case ==
    /\ Returned
    /\ LastOf(trail).op = "enroll"
    /\ LastOf(trail).section \in Sections
\* C11: enroll by a student who holds an Enrollment in the section ends
\* with 'Already enrolled', and by a student who holds a waitlist entry for
\* the section with 'Already on waitlist'; either way, full section or not,
\* the Enrollment rows and the Waitlist rows are what they were.
C11_Rejected ==
    C11_Case =>
        LET e == LastOf(trail)
        IN  /\ <<e.student, e.section>> \in e.pre.enrollments
                => /\ e.status = "already_enrolled"
                   /\ enrollments = e.pre.enrollments
                   /\ waitlist = e.pre.waitlist
            /\ (\E w \in WaitlistIn(e.pre, e.section) : w.student = e.student)
                => /\ e.status = "already_waitlisted"
                   /\ enrollments = e.pre.enrollments
                   /\ waitlist = e.pre.waitlist
\* a waiting student asked again while the section had a free seat
C11_Witness ==
    /\ C11_Case
    /\ LastOf(trail).status = "already_waitlisted"
    /\ FreeSeats(LastOf(trail).pre, LastOf(trail).section) > 0

\* st holds an Enrollment in another section of the semester of s whose
\* schedule overlaps s
ConflictElsewhere(T, st, s) ==
    \E e \in T.enrollments :
        /\ e[1] = st
        /\ e[2] # s
        /\ sections[e[2]].semester = sections[s].semester
        /\ check_conflict(parse_schedule(sections[s].schedule),
                          parse_schedule(sections[e[2]].schedule))
\* a student who holds an overlapping Enrollment elsewhere has called
\* enroll, alone
C12_Case ==
    /\ Returned
    /\ LastOf(trail).op = "enroll"
    /\ LastOf(trail).section \in Sections
    /\ ConflictElsewhere(LastOf(trail).pre, LastOf(trail).student,
                         LastOf(trail).section)
\* C12 as stated: every enroll by a student who holds an Enrollment in
\* another section of the same semester with an overlapping schedule ends
\* with the schedule-conflict error, and the student has neither an
\* Enrollment nor a waitlist entry for the section afterwards.
C12_Conflict ==
    C12_Case =>
        /\ LastOf(trail).status = "schedule_conflict"
        /\ ~Enrolled(LastOf(trail).student, LastOf(trail).section)
        /\ ~Waitlisted(LastOf(trail).student, LastOf(trail).section)
\* C12, amended: when moreover the section has a free seat and the student
\* holds neither an Enrollment nor a waitlist entry for it, the call ends
\* with the schedule-conflict error and no row is created: the Enrollment
\* rows and the Waitlist rows are what they were.
C12_ConflictFreeSeat ==
    /\ C12_Case
    /\ FreeSeats(LastOf(trail).pre, LastOf(trail).section) > 0
    /\ <<LastOf(trail).student, LastOf(trail).section>>
           \notin LastOf(trail).pre.enrollments
    /\ \A w \in WaitlistIn(LastOf(trail).pre, LastOf(trail).section) :
           w.student # LastOf(trail).student
    => /\ LastOf(trail).status = "schedule_conflict"
       /\ enrollments = LastOf(trail).pre.enrollments
       /\ waitlist = LastOf(trail).pre.waitlist
\* the call was refused for the conflict although the section had a seat
C12_Witness ==
    /\ C12_Case
    /\ FreeSeats(LastOf(trail).pre, LastOf(trail).section) > 0
    /\ LastOf(trail).status = "schedule_conflict"
    /\ ~Enrolled(LastOf(trail).student, LastOf(trail).section)

\* process_waitlist has run, alone, for a section with a free seat whose
\* head-of-queue student holds an overlapping Enrollment of the semester
C13_Case ==
    /\ Returned
    /\ LastOf(trail).op = "promote"
    /\ LastOf(trail).section \in Sections
    /\ FreeSeats(LastOf(trail).pre, LastOf(trail).section) > 0
    /\ WaitlistIn(LastOf(trail).pre, LastOf(trail).section) # {}
    /\ ConflictIn(LastOf(trail).pre,
                  HeadOf(LastOf(trail).pre, LastOf(trail).section).student,
                  LastOf(trail).section)
\* C13: when process_waitlist finds a free seat and the head of the queue
\* has a same-semester schedule conflict, the run deletes exactly the head
\* entry and creates no Enrollment: the seat stays free and every other
\* waitlist entry stays in place.
C13_HeadEvicted ==
    C13_Case =>
        LET e == LastOf(trail)
        IN  /\ e.status = "conflict"
            /\ waitlist = e.pre.waitlist \ {HeadOf(e.pre, e.section)}
            /\ enrollments = e.pre.enrollments

\* a drop has run alone and returned
C16_Solo ==
    /\ Returned
    /\ LastOf(trail).op = "drop"
    /\ LastOf(trail).section \in Sections
\* two drops of one Enrollment overlapped each other and have returned
C16_Race ==
    /\ Concurrent("drop")
    /\ trail[1].student = trail[2].student
    /\ trail[1].section = trail[2].section
    /\ <<trail[1].student, trail[1].section>> \in trail[1].pre.enrollments
\* C16: a drop by an enrolled student deletes that student's Enrollment in
\* the section and nothing else, and sends one promotion job for the
\* section; a drop by a student with no Enrollment in the section ends with
\* the not-found error, changes no row and sends no job.  Of two concurrent
\* drops of one Enrollment one succeeds and the other ends not-found: one
\* row deleted, one job sent.
C16_Drop ==
    /\ C16_Solo =>
          LET e == LastOf(trail)
              row == <<e.student, e.section>>
          IN  IF row \in e.pre.enrollments
              THEN /\ e.status = "dropped"
                   /\ enrollments = e.pre.enrollments \ {row}
                   /\ waitlist = e.pre.waitlist
                   /\ jobs = [e.pre.jobs EXCEPT ![e.section] = @ + 1]
              ELSE /\ e.status = "not_found"
                   /\ Tables = e.pre
    /\ C16_Race =>
          LET row == <<trail[1].student, trail[1].section>>
          IN  /\ {trail[1].status, trail[2].status} = {"dropped", "not_found"}
              /\ enrollments = trail[1].pre.enrollments \ {row}
              /\ waitlist = trail[1].pre.waitlist
              /\ jobs = [trail[1].pre.jobs EXCEPT ![trail[1].section] = @ + 1]
\* the second of two concurrent drops waited for the row lock and found the
\* Enrollment gone
C16_Witness ==
    /\ C16_Race
    /\ trail[1].status = "dropped"
    /\ trail[2].status = "not_found"
    /\ trail[2].pre = trail[1].pre

\* leave_waitlist has run alone and returned
C17_Case ==
    /\ Returned
    /\ LastOf(trail).op = "leave"
\* C17: leave_waitlist by the owner of the entry deletes exactly that entry;
\* for an id that has no row, or a row of another student, it ends with the
\* not-found error and no row changes.  Enrollments are never touched.
C17_Leave ==
    C17_Case =>
        LET e == LastOf(trail)
            own == {w \in e.pre.waitlist :
                       w.id = e.wid /\ w.student = e.student}
        IN  /\ enrollments = e.pre.enrollments
            /\ IF own # {}
               THEN e.status = "left" /\ waitlist = e.pre.waitlist \ own
               ELSE e.status = "not_found" /\ waitlist = e.pre.waitlist
\* a student tried to remove the entry of another student
C17_Witness ==
    /\ C17_Case
    /\ LastOf(trail).status = "not_found"
    /\ \E w \in waitlist :
          w.id = LastOf(trail).wid /\ w.student # LastOf(trail).student

\* C15: a promotion job for a section is sent only by a drop_course call for
\* that section whose atomic block has ended: the DELETE of its Enrollment
\* is committed and the call holds no row lock.  A worker cannot take the
\* job before it is sent, so every run it triggers reads the committed
\* count without that Enrollment.
C15_AfterCommit ==
    [][\A s \in SectionIds :
          jobs'[s] > jobs[s] =>
              \E p \in Procs :
                  /\ pc[p] = "d_schedule"
                  /\ req[p].section = s
                  /\ locks[p] = {}
                  /\ pc'[p] = "idle"]_vars
\* a drop has returned: its row is gone and its job is in the queue
C15_Witness ==
    /\ Returned
    /\ LastOf(trail).op = "drop"
    /\ LastOf(trail).status = "dropped"
    /\ <<LastOf(trail).student, LastOf(trail).section>> \notin enrollments
    /\ jobs[LastOf(trail).section] = LastOf(trail).pre.jobs[LastOf(trail).section] + 1

\* process_waitlist has run alone, has called send_mail and has returned
C20_Case ==
    /\ Returned
    /\ LastOf(trail).op = "promote"
    /\ LastOf(trail).mail # None
\* C20: whatever becomes of the message, a run of process_waitlist that
\* reached send_mail commits what it did: the promotion (one Enrollment for
\* the selected student, that student's entry deleted) or the conflict
\* eviction (the selected entry deleted, no Enrollment).  A notification
\* that failed leaves the same rows as one that was sent.
C20_MailNeverRollsBack ==
    C20_Case =>
        LET e == LastOf(trail)
        IN  \E w \in WaitlistIn(e.pre, e.section) :
               /\ waitlist = e.pre.waitlist \ {w}
               /\ \/ /\ e.status = "promoted"
                     /\ <<w.student, e.section>> \notin e.pre.enrollments
                     /\ enrollments =
                           e.pre.enrollments \cup {<<w.student, e.section>>}
                  \/ /\ e.status = "conflict"
                     /\ ConflictIn(e.pre, w.student, e.section)
                     /\ enrollments = e.pre.enrollments
\* a student was evicted for a conflict and the notification failed
C20_Witness ==
    /\ C20_Case
    /\ LastOf(trail).mail = "failed"
    /\ LastOf(trail).status = "conflict"
    /\ Cardinality(waitlist) < Cardinality(LastOf(trail).pre.waitlist)

\* process_waitlist has run, alone, for a section whose head-of-queue
\* student holds an Enrollment in the section
C14_Case ==
    /\ Returned
    /\ LastOf(trail).op = "promote"
    /\ LastOf(trail).section \in Sections
    /\ WaitlistIn(LastOf(trail).pre, LastOf(trail).section) # {}
    /\ <<HeadOf(LastOf(trail).pre, LastOf(trail).section).student,
         LastOf(trail).section>> \in LastOf(trail).pre.enrollments
\* C14: whenever process_waitlist runs for a section whose head-of-queue
\* student already holds an Enrollment in it, the run deletes that stale
\* entry and nothing else, creates no Enrollment for anyone, and ends with
\* the already-enrolled outcome.
C14_StaleRemoved ==
    C14_Case =>
        LET e == LastOf(trail)
        IN  /\ e.status = "already_enrolled"
            /\ waitlist = e.pre.waitlist \ {HeadOf(e.pre, e.section)}
            /\ enrollments = e.pre.enrollments

\* C18: a call whose wait for the section lock timed out runs its handler a
\* second time, so a lock timeout reaches the caller only from the second
\* attempt; the call that timed out leaves the Enrollment rows and the
\* Waitlist rows as they were.
C18_RetriedOnce ==
    /\ \A i \in 1..Len(trail) :
          trail[i].status = "lock_timeout" => attempts = 2
    /\ Returned /\ LastOf(trail).status = "lock_timeout"
          => /\ enrollments = LastOf(trail).pre.enrollments
             /\ waitlist = LastOf(trail).pre.waitlist

\* the invocation reported a failure to its caller
Failed(e) ==
    \/ e.status \in {"error", "db_error", "broker_error", "lock_timeout",
                     "not_found", "section_not_found", "schedule_conflict",
                     "already_waitlisted"}
    \/ e.op = "enroll" /\ e.status = "already_enrolled"
\* C19: whenever an invocation of enroll, drop, leave_waitlist or
\* process_waitlist that ran alone reports a failure, of the storage layer
\* and of sending the promotion job included, the Enrollment rows and the
\* Waitlist rows are exactly what they were before it.
C19_AllOrNothing ==
    Returned /\ Failed(LastOf(trail)) =>
        /\ enrollments = LastOf(trail).pre.enrollments
        /\ waitlist = LastOf(trail).pre.waitlist

\* the slots of a parsed schedule
SlotsOf(schedule) == {schedule[i] : i \in 1..Len(schedule)}
\* a call of check_conflict has returned
C21_Case == call.returned
\* C21: check_conflict(A, B) is true exactly when a slot of A and a slot of
\* B have the same day with startA < endB and endA > startB.  Hence it is
\* false when every pair of slots is on different days or only touches
\* (endA = startB or endB = startA), and false when either list is empty.
C21_Overlap ==
    C21_Case =>
        LET A == SlotsOf(call.schedule1)
            B == SlotsOf(call.schedule2)
        IN  /\ call.result <=>
                  \E a \in A : \E b \in B :
                      a.day = b.day /\ a.start < b.end /\ a.end > b.start
            /\ (\A a \in A : \A b \in B :
                   a.day # b.day \/ a.end = b.start \/ b.end = a.start)
                  => call.result = FALSE
            /\ (A = {} \/ B = {}) => call.result = FALSE
\* two slots of one day that touch at an endpoint, and no other pair of the
\* same day: no conflict
C21_Witness ==
    /\ C21_Case
    /\ call.result = FALSE
    /\ \E i \in 1..Len(call.schedule1) : \E j \in 1..Len(call.schedule2) :
          /\ call.schedule1[i].day = call.schedule2[j].day
          /\ call.schedule1[i].start < call.schedule1[i].end
          /\ call.schedule1[i].end = call.schedule2[j].start
          /\ call.schedule2[j].start < call.schedule2[j].end

\* C22: a transaction that is about to create or delete an Enrollment row or
\* a Waitlist row of a section holds the row lock of that section, in
\* EnrollStudentView.post, drop_course, leave_waitlist and process_waitlist
\* alike.
C22_SectionLocked ==
    \A p \in Procs :
        /\ pc[p] \in {"e_waitlist", "e_create", "d_delete",
                      "p_conflict", "p_enroll"}
              => SectionLock(req[p].section) \in locks[p]
        /\ pc[p] = "l_delete"
              => \A w \in waitlist :
                     w.id = req[p].wid => SectionLock(w.section) \in locks[p]

\* the labels between the count() of EnrollStudentView.post or
\* process_waitlist and the commit of the row it decided on
Decided == {"e_waitlist", "e_conflict", "e_create",
            "p_first", "p_conflict", "p_enroll"}
\* the labels at which the count was found below the capacity
SeatFound == Decided \ {"e_waitlist"}
\* C23: from the count() that gates its decision until its commit an enroll
\* or a promotion holds the row lock of the section, so it is the only
\* enroll or promotion of that section in that window, and the free seat it
\* counted is still free when it writes.
C23_CountUnderLock ==
    \A p \in Procs :
        /\ pc[p] \in Decided =>
              /\ SectionLock(req[p].section) \in locks[p]
              /\ \A q \in Procs \ {p} :
                    ~(pc[q] \in Decided /\ req[q].section = req[p].section)
        /\ pc[p] \in SeatFound =>
              current_enrollment(req[p].section)
                  < sections[req[p].section].capacity
\* an enroll is about to create the Enrollment for the last seat while
\* another enroll for the section waits for the lock
C23_Witness ==
    \E p \in Procs : \E q \in Procs \ {p} :
        /\ pc[p] = "e_create"
        /\ current_enrollment(req[p].section)
              = sections[req[p].section].capacity - 1
        /\ pc[q] = "e_lock"
        /\ req[q].section = req[p].section

\* the section of the row a lock is on
LockSection(p, l) ==
    IF l[1] = "section" THEN l[2]
    ELSE IF l[1] = "enrollment" THEN l[3]
    ELSE IF pc[p] \in {"p_conflict", "p_enroll"} THEN entry[p].section
    ELSE req[p].section
\* the row locks of every invocation are on one section, and some invocation
\* in progress can take its next step
C24_NoDeadlock ==
    /\ \A p \in Procs : \A l \in locks[p] : \A m \in locks[p] :
          LockSection(p, l) = LockSection(p, m)
    /\ Active # {} => \E p \in Active : ENABLED Continue(p)
\* C24: no invocation holds locks on rows of two sections, the invocations
\* never all wait for each other, and under fair scheduling every invocation
\* that has begun returns.
C24_Completes ==
    /\ []C24_NoDeadlock
    /\ \A p \in Procs : (pc[p] # "idle") ~> (pc[p] = "idle")
\* a promotion holds the section lock and the lock of the entry it selected
\* while leave_waitlist waits for that entry
C24_Witness ==
    \E p \in Procs : \E q \in Procs \ {p} :
        /\ pc[p] = "p_conflict"
        /\ SectionLock(req[p].section) \in locks[p]
        /\ WaitlistLock(entry[p].id) \in locks[p]
        /\ pc[q] = "l_lock"
        /\ req[q].wid = entry[p].id

\* the schedules of two sections of one semester overlap
Overlapping(s1, s2) ==
    /\ sections[s1].semester = sections[s2].semester
    /\ check_conflict(parse_schedule(sections[s1].schedule),
                      parse_schedule(sections[s2].schedule))
\* st holds two Enrollments whose sections overlap
DoubleBooked(st) ==
    \E s1 \in Sections : \E s2 \in Sections \ {s1} :
        Enrolled(st, s1) /\ Enrolled(st, s2) /\ Overlapping(s1, s2)
\* two enroll calls of one student for two overlapping sections, each with a
\* free seat and no row of the student, overlapped each other
C25_Case ==
    /\ Concurrent("enroll")
    /\ trail[1].student = trail[2].student
    /\ trail[1].section \in Sections /\ trail[2].section \in Sections
    /\ trail[1].section # trail[2].section
    /\ Overlapping(trail[1].section, trail[2].section)
    /\ \A i \in {1, 2} :
          /\ FreeSeats(trail[i].pre, trail[i].section) > 0
          /\ \A j \in {1, 2} :
                /\ <<trail[i].student, trail[j].section>>
                       \notin trail[i].pre.enrollments
                /\ \A w \in WaitlistIn(trail[i].pre, trail[j].section) :
                       w.student # trail[i].student
\* C25: of two simultaneous enroll calls of one student for two overlapping
\* sections of a semester, each with a free seat, each ends Enrolled or with
\* the schedule-conflict error, and a call is refused only for an Enrollment
\* the other call has committed: at least one ends Enrolled, and both can
\* (C25_Witness), which leaves the student with two overlapping Enrollments.
C25_Race ==
    C25_Case =>
        /\ \A i \in {1, 2} :
              /\ trail[i].status \in {"enrolled", "schedule_conflict"}
              /\ trail[i].status = "enrolled"
                    <=> Enrolled(trail[i].student, trail[i].section)
              /\ trail[i].status = "schedule_conflict"
                    => trail[3 - i].status = "enrolled"
        /\ \E i \in {1, 2} : trail[i].status = "enrolled"
\* both calls ended Enrolled: the student holds two overlapping Enrollments
C25_Witness ==
    /\ C25_Case
    /\ trail[1].status = "enrolled"
    /\ trail[2].status = "enrolled"
    /\ DoubleBooked(trail[1].student)

\* a student with an overlapping Enrollment elsewhere and no row for the
\* section has called enroll, alone, for a section that is full
C26_Case ==
    /\ C12_Case
    /\ FreeSeats(LastOf(trail).pre, LastOf(trail).section) <= 0
    /\ <<LastOf(trail).student, LastOf(trail).section>>
           \notin LastOf(trail).pre.enrollments
    /\ \A w \in WaitlistIn(LastOf(trail).pre, LastOf(trail).section) :
           w.student # LastOf(trail).student
\* process_waitlist has run alone and has deleted a waitlist entry
C26_Promotion ==
    /\ Returned
    /\ LastOf(trail).op = "promote"
    /\ LastOf(trail).pre.waitlist # waitlist
\* C26: in enroll the capacity test comes before the conflict loop: a
\* student with a same-semester schedule conflict who asks for a full
\* section is put on the waitlist and no conflict is reported.  The conflict
\* is found by process_waitlist: the entry of a student who has a conflict
\* is deleted and no Enrollment is created, and no run goes on to create the
\* Enrollment of a student who had a conflict when the run began.
C26_CapacityFirst ==
    /\ C26_Case =>
          LET e == LastOf(trail)
          IN  /\ e.status = "waitlisted"
              /\ enrollments = e.pre.enrollments
              /\ \E w \in waitlist :
                    /\ w.student = e.student /\ w.section = e.section
                    /\ w \notin e.pre.waitlist
                    /\ waitlist = e.pre.waitlist \cup {w}
    /\ C26_Promotion =>
          LET e == LastOf(trail)
          IN  \E w \in WaitlistIn(e.pre, e.section) :
                 /\ waitlist = e.pre.waitlist \ {w}
                 /\ IF ConflictIn(e.pre, w.student, e.section)
                    THEN e.status = "conflict"
                         /\ enrollments = e.pre.enrollments
                    ELSE e.status = "promoted"
    /\ \A p \in Procs :
          /\ Active = {p}
          /\ pc[p] = "p_enroll"
          /\ trail # <<>>
          /\ LastOf(trail).solo
          => ~ConflictIn(LastOf(trail).pre, entry[p].student, req[p].section)
\* the conflicted student is on the waitlist of the full section
C26_Witness ==
    /\ C26_Case
    /\ LastOf(trail).status = "waitlisted"
    /\ Waitlisted(LastOf(trail).student, LastOf(trail).section)
    /\ ConflictElsewhere(Tables, LastOf(trail).student, LastOf(trail).section)

\* the schedule of section s is one of the descriptors that do not parse
Malformed(s) == sections[s].schedule \in MalformedSchedules
\* the schedule of s, or that of every Enrollment st holds in the semester
\* of s, does not parse, and st holds such an Enrollment
C27_Unparsed(T, st, s) ==
    /\ \E e \in T.enrollments :
          e[1] = st /\ e[2] # s
          /\ sections[e[2]].semester = sections[s].semester
    /\ \/ Malformed(s)
       \/ \A e \in T.enrollments :
             e[1] = st /\ sections[e[2]].semester = sections[s].semester
             => Malformed(e[2])
\* enroll has run alone for a section with a free seat, called by a student
\* with no row for it
C27_Enroll ==
    /\ Returned
    /\ LastOf(trail).op = "enroll"
    /\ LastOf(trail).section \in Sections
    /\ FreeSeats(LastOf(trail).pre, LastOf(trail).section) > 0
    /\ <<LastOf(trail).student, LastOf(trail).section>>
           \notin LastOf(trail).pre.enrollments
    /\ \A w \in WaitlistIn(LastOf(trail).pre, LastOf(trail).section) :
           w.student # LastOf(trail).student
\* C27: a schedule that does not parse gives the empty list, and the empty
\* list conflicts with nothing.  An enroll that runs alone for a section
\* with a free seat, when the schedule of the section or of every Enrollment
\* the student holds in the semester does not parse, creates the Enrollment;
\* a promotion that runs alone and takes the entry of such a student creates
\* the Enrollment; and whenever a conflict is reported, the section and an
\* Enrollment of the student both have a schedule that parses, and the two
\* overlap.
C27_MalformedNoConflict ==
    /\ \A s \in Sections :
          Malformed(s) => parse_schedule(sections[s].schedule) = <<>>
    /\ C27_Enroll
       /\ C27_Unparsed(LastOf(trail).pre, LastOf(trail).student,
                       LastOf(trail).section)
       => /\ LastOf(trail).status = "enrolled"
          /\ enrollments = LastOf(trail).pre.enrollments
                \cup {<<LastOf(trail).student, LastOf(trail).section>>}
    /\ C26_Promotion =>
          LET e == LastOf(trail)
          IN  \A w \in e.pre.waitlist \ waitlist :
                 C27_Unparsed(e.pre, w.student, e.section)
                 => /\ e.status = "promoted"
                    /\ enrollments = e.pre.enrollments
                          \cup {<<w.student, e.section>>}
    /\ Returned /\ LastOf(trail).status \in {"schedule_conflict", "conflict"}
       => LET e == LastOf(trail)
          IN  /\ ~Malformed(e.section)
              /\ \E x \in e.pre.enrollments :
                    /\ ~Malformed(x[2])
                    /\ sections[x[2]].semester = sections[e.section].semester
                    /\ check_conflict(
                          parse_schedule(sections[e.section].schedule),
                          parse_schedule(sections[x[2]].schedule))
\* the student who holds an Enrollment in the other section is enrolled:
\* one of the two schedules does not parse
C27_Witness ==
    /\ C27_Enroll
    /\ C27_Unparsed(LastOf(trail).pre, LastOf(trail).student,
                    LastOf(trail).section)
    /\ Enrolled(LastOf(trail).student, LastOf(trail).section)

C29_NoDoubleBooking == \A st \in students : ~DoubleBooked(st)
\* a student who holds an Enrollment has been refused the overlapping
\* section by enroll
C29_Witness ==
    /\ Returned
    /\ LastOf(trail).op = "enroll"
    /\ LastOf(trail).status = "schedule_conflict"
    /\ ~Enrolled(LastOf(trail).student, LastOf(trail).section)
    /\ \E e \in enrollments :
          /\ e[1] = LastOf(trail).student
          /\ Overlapping(e[2], LastOf(trail).section)

\* process_waitlist holds the section lock, has found a free seat and is
\* about to read the first waitlist entry, and the waitlist is not empty
C30_Case(p) ==
    /\ pc[p] = "p_first"
    /\ SectionWaitlist(req[p].section) # {}
\* C30: while only enroll, drop_course, leave_waitlist and process_waitlist
\* write, no student has both an Enrollment and a waitlist entry for one
\* section, so process_waitlist, with the section lock and a free seat,
\* never reads a first entry whose student is enrolled in the section, and
\* no run ends in the already-enrolled branch.
C30_BranchNotTaken ==
    /\ \A p \in Procs :
          C30_Case(p) =>
              /\ SectionLock(req[p].section) \in locks[p]
              /\ current_enrollment(req[p].section)
                     < sections[req[p].section].capacity
              /\ \A w \in SectionWaitlist(req[p].section) :
                    ~Enrolled(w.student, req[p].section)
    /\ \A i \in 1..Len(trail) :
          trail[i].op = "promote" => trail[i].status # "already_enrolled"
\* process_waitlist is about to read the first entry of a waitlist that is
\* not empty, and the student of that entry is enrolled elsewhere
C30_Witness ==
    \E p \in Procs :
        /\ C30_Case(p)
        /\ \E w \in FirstRows(req[p].section) :
              \E e \in enrollments : e[1] = w.student
====
